---- MODULE Spec2Model ----
(***************************************************************************)
(* The generate-weighted-feed-item edge function                           *)
(* (supabase/functions/generate-weighted-feed-item/index.ts) as a state    *)
(* machine: the record store (characters, feed_items), and every           *)
(* invocation of the serve handler with its position between two awaits.   *)
(*                                                                         *)
(* Strings whose text matters (history, title, content, tldr) are          *)
(* sequences of character codes: NL is "\n", SP is " ", any code >= 2 is a *)
(* visible character.  Identifiers and error messages are TLA+ strings.    *)
(***************************************************************************)
EXTENDS Integers, Sequences, FiniteSets, TLC

NL == 0
SP == 1

\* A value that is not a string (undefined, null, a number, an object).
NotStr == <<-1>>

IsStr(v) == v # NotStr

IsWs(c) == c = NL \/ c = SP

----------------------------------------------------------------------------
(* String.prototype.split("\n"), trim(), Array.prototype.join, slice(-n). *)

RECURSIVE SplitFrom(_, _, _)
SplitFrom(s, i, cur) ==
  IF i > Len(s) THEN <<cur>>
  ELSE IF s[i] = NL THEN <<cur>> \o SplitFrom(s, i + 1, <<>>)
  ELSE SplitFrom(s, i + 1, Append(cur, s[i]))

SplitNL(s) == SplitFrom(s, 1, <<>>)

RECURSIVE TrimLeft(_)
TrimLeft(s) ==
  IF s = <<>> THEN <<>>
  ELSE IF IsWs(Head(s)) THEN TrimLeft(Tail(s))
  ELSE s

RECURSIVE TrimRight(_)
TrimRight(s) ==
  IF s = <<>> THEN <<>>
  ELSE IF IsWs(s[Len(s)]) THEN TrimRight(SubSeq(s, 1, Len(s) - 1))
  ELSE s

Trim(s) == TrimRight(TrimLeft(s))

RECURSIVE JoinNL(_)
JoinNL(xs) ==
  IF xs = <<>> THEN <<>>
  ELSE IF Len(xs) = 1 THEN xs[1]
  ELSE xs[1] \o <<NL>> \o JoinNL(Tail(xs))

\* xs.slice(-n)
SliceLast(xs, n) ==
  IF Len(xs) <= n THEN xs ELSE SubSeq(xs, Len(xs) - n + 1, Len(xs))

\* xs.filter(Boolean) on an array of strings: the empty string is falsy.
FilterNonEmpty(xs) == SelectSeq(xs, LAMBDA e : e # <<>>)

MapTrim(xs) == [k \in 1..Len(xs) |-> Trim(xs[k])]

----------------------------------------------------------------------------
(* The history log of a character (lines 183-186 and 312-318).             *)

maxHistoryEntries == 20
recentHistoryCount == 10

existingHistoryRaw(h) == IF IsStr(h) THEN h ELSE <<>>

\* The entries without the trim of each line.
historyEntries_NoTrim(h) == FilterNonEmpty(SplitNL(existingHistoryRaw(h)))

historyEntries(h) == FilterNonEmpty(MapTrim(SplitNL(existingHistoryRaw(h))))

recentHistoryEntries(h) == SliceLast(historyEntries(h), recentHistoryCount)

\* The context text: the sentinel, or the numbered listing (idx + 1, entry).
historyContext(h) ==
  LET recent == recentHistoryEntries(h)
  IN  IF Len(recent) > 0
      THEN [sentinel |-> FALSE,
            lines |-> [k \in 1..Len(recent) |-> [num |-> k, entry |-> recent[k]]]]
      ELSE [sentinel |-> TRUE, lines |-> <<>>]

updatedHistoryEntries(h, feedTldr) == Append(historyEntries(h), feedTldr)

truncatedHistoryEntries(h, feedTldr) ==
  SliceLast(updatedHistoryEntries(h, feedTldr), maxHistoryEntries)

updatedHistory(h, feedTldr) == JoinNL(truncatedHistoryEntries(h, feedTldr))

----------------------------------------------------------------------------
(* JSON values as far as assignFromParsed looks at them: an object with    *)
(* the three fields (a field that is absent or not a string is NotStr),    *)
(* null, a number, or undefined.                                           *)

Obj(t, c, d) == [t |-> "object", title |-> t, content |-> c, tldr |-> d]
JNull == [t |-> "null", title |-> NotStr, content |-> NotStr, tldr |-> NotStr]
JNum == [t |-> "number", title |-> NotStr, content |-> NotStr, tldr |-> NotStr]
Undefined == [t |-> "undefined", title |-> NotStr, content |-> NotStr, tldr |-> NotStr]

\* The texts the model may generate.
TitleA == <<20>>
TitleB == <<25>>
ContentA == <<21, SP, 21>>
ContentB == <<26>>
TldrClean == <<22>>
TldrPadded == <<SP, 22, SP>>
TldrTwoLines == <<23, NL, 24>>
Blank == <<SP, NL, SP>>
Empty == <<>>

\* JSON texts and what JSON.parse yields on each; on any other text it throws.
TxtFull == <<40>>
TxtPadded == <<41>>
TxtTwoLines == <<42>>
TxtNoTldr == <<43>>
TxtNull == <<44>>
TxtNum == <<45>>
TxtNoContent == <<46>>
TxtGarbage == <<47, SP, 47>>

JsonDocs ==
  (TxtFull :> Obj(TitleA, ContentA, TldrClean))
  @@ (TxtPadded :> Obj(TitleB, ContentB, TldrPadded))
  @@ (TxtTwoLines :> Obj(TitleA, ContentA, TldrTwoLines))
  @@ (TxtNoTldr :> Obj(TitleA, ContentA, NotStr))
  @@ (TxtNoContent :> Obj(TitleA, NotStr, TldrClean))
  @@ (TxtNull :> JNull)
  @@ (TxtNum :> JNum)

JsonParse(text) ==
  IF text \in DOMAIN JsonDocs
  THEN [ok |-> TRUE, val |-> JsonDocs[text]]
  ELSE [ok |-> FALSE, val |-> Undefined]

----------------------------------------------------------------------------
(* Response extraction (lines 252-308).                                    *)

\* The feed variables before extraction: feedTitle = feedContent = feedTldr = "".
NoFeed == [title |-> <<>>, content |-> <<>>, tldr |-> <<>>]

assignFromParsed(feed, payload) ==
  IF payload.t \in {"null", "undefined"} THEN feed
  ELSE [title |-> IF IsStr(payload.title) THEN payload.title ELSE feed.title,
        content |-> IF IsStr(payload.content) THEN payload.content ELSE feed.content,
        tldr |-> IF IsStr(payload.tldr) THEN payload.tldr ELSE feed.tldr]

\* choices[0].message: parsed is a JSON value, content is absent ("none"), a
\* string or an array of parts, tool is tool_calls[0].function.arguments
\* (absent, a string or an object).
NoContent == [kind |-> "none", text |-> <<>>, parts |-> <<>>]
StrContent(text) == [kind |-> "string", text |-> text, parts |-> <<>>]
ArrContent(parts) == [kind |-> "array", text |-> <<>>, parts |-> parts]
Part(type, text) == [type |-> type, text |-> text]

NoTool == [kind |-> "none", text |-> <<>>, obj |-> Undefined]
StrTool(text) == [kind |-> "string", text |-> text, obj |-> Undefined]
ObjTool(obj) == [kind |-> "object", text |-> <<>>, obj |-> obj]

Message(parsed, content, tool) ==
  [present |-> TRUE, parsed |-> parsed, content |-> content, tool |-> tool]
NoMessage ==
  [present |-> FALSE, parsed |-> Undefined, content |-> NoContent, tool |-> NoTool]

\* content.find((part) => part?.type === "output_text" || part?.type === "text")
RECURSIVE FindTextPart(_, _)
FindTextPart(parts, k) ==
  IF k > Len(parts) THEN Part("none", NotStr)
  ELSE IF parts[k].type \in {"output_text", "text"} THEN parts[k]
  ELSE FindTextPart(parts, k + 1)

\* A string is truthy when it is not empty; a missing text is falsy.
Truthy(s) == IsStr(s) /\ s # <<>>

ExtractParsed(m) == assignFromParsed(NoFeed, m.parsed)

ExtractString(m) ==
  LET r == JsonParse(m.content.text)
  IN  IF r.ok THEN assignFromParsed(NoFeed, r.val)
      ELSE [NoFeed EXCEPT !.content = m.content.text]

ExtractArray(m) ==
  LET textPart == FindTextPart(m.content.parts, 1)
  IN  IF ~Truthy(textPart.text) THEN NoFeed
      ELSE LET r == JsonParse(textPart.text)
           IN  IF r.ok
               THEN LET f == assignFromParsed(NoFeed, r.val)
                    IN  IF f.content = <<>> THEN [f EXCEPT !.content = textPart.text]
                        ELSE f
               ELSE [NoFeed EXCEPT !.content = textPart.text]

ExtractTool(m) ==
  IF m.tool.kind = "string"
  THEN LET r == JsonParse(m.tool.text)
       IN  IF r.ok THEN assignFromParsed(NoFeed, r.val) ELSE NoFeed
  ELSE assignFromParsed(NoFeed, m.tool.obj)

ToolPresent(m) ==
  (m.tool.kind = "string" /\ m.tool.text # <<>>) \/ m.tool.kind = "object"

\* The chain with the tool-call arguments tried first.
Extract_ToolFirst(m) ==
  IF ~m.present THEN NoFeed
  ELSE IF ToolPresent(m) THEN ExtractTool(m)
  ELSE IF m.parsed.t = "object" THEN ExtractParsed(m)
  ELSE IF m.content.kind = "string" THEN ExtractString(m)
  ELSE IF m.content.kind = "array" THEN ExtractArray(m)
  ELSE NoFeed

\* The if / else-if chain of lines 269-299: the first shape that is present
\* is the only one used.
Extract(m) ==
  IF ~m.present THEN NoFeed
  ELSE IF m.parsed.t = "object" THEN ExtractParsed(m)
  ELSE IF m.content.kind = "string" THEN ExtractString(m)
  ELSE IF m.content.kind = "array" THEN ExtractArray(m)
  ELSE IF ToolPresent(m) THEN ExtractTool(m)
  ELSE NoFeed

\* The field checks without the trim: only the empty string is rejected.
IsBlank_NoTrim(s) == s = <<>>

\* !x || !String(x).trim()
IsBlank(s) == s = <<>> \/ Trim(s) = <<>>

\* The field checks with the content checked before the title.
FieldError_ContentFirst(feed) ==
  IF IsBlank(feed.content) THEN "Feed content missing from AI response"
  ELSE IF IsBlank(feed.title) THEN "Feed title missing from AI response"
  ELSE IF IsBlank(feed.tldr) THEN "Feed TL;DR missing from AI response"
  ELSE ""

\* The message of the error the field checks throw, "" when they pass.
FieldError(feed) ==
  IF IsBlank(feed.title) THEN "Feed title missing from AI response"
  ELSE IF IsBlank(feed.content) THEN "Feed content missing from AI response"
  ELSE IF IsBlank(feed.tldr) THEN "Feed TL;DR missing from AI response"
  ELSE ""

----------------------------------------------------------------------------
(* Character selection (lines 114-181).                                    *)

\* A request-body field that is absent or not a string.
Absent == "<absent>"

\* typeof payload.characterId === "string" ? ... : typeof payload.character_id ...
requestedCharacterId(payload) ==
  IF payload.characterId # Absent THEN payload.characterId
  ELSE IF payload.character_id # Absent THEN payload.character_id
  ELSE Absent

\* if (requestedCharacterId): null and "" are falsy.
IsTargeted(requested) == requested # Absent /\ requested # ""

\* Math.sqrt on the like counts of the model, which are perfect squares.
Sqrt(n) == CHOOSE k \in 0..n : k * k = n

Max(a, b) == IF a >= b THEN a ELSE b

\* likes is <<>> for null and <<n>> for the number n: c.likes ?? 0.
LikesOrZero(likes) == IF likes = <<>> THEN 0 ELSE likes[1]

\* The weight without the constant 1.
Weight_NoFloor(likes) == Sqrt(Max(LikesOrZero(likes), 0))

\* 1 + Math.sqrt(Math.max(c.likes ?? 0, 0))
Weight(likes) == 1 + Sqrt(Max(LikesOrZero(likes), 0))

RECURSIVE SumSeq(_)
SumSeq(ws) == IF ws = <<>> THEN 0 ELSE Head(ws) + SumSeq(Tail(ws))

\* The draws Math.random() * total takes are the multiples of 1/Grid in
\* [0, total); the walk runs on draws and weights scaled by Grid.
Grid == 2

\* The loop with r compared to each weight on its own, never reduced.
RECURSIVE WalkFrom_NoCarry(_, _, _)
WalkFrom_NoCarry(ws, r, k) ==
  IF k > Len(ws) THEN 1
  ELSE IF r - ws[k] <= 0 THEN k
  ELSE WalkFrom_NoCarry(ws, r, k + 1)

\* The loop of lines 171-177; 1 (characters[0]) when no index is reached.
RECURSIVE WalkFrom(_, _, _)
WalkFrom(ws, r, k) ==
  IF k > Len(ws) THEN 1
  ELSE IF r - ws[k] <= 0 THEN k
  ELSE WalkFrom(ws, r - ws[k], k + 1)

WeightedIndex(ws, r) == WalkFrom(ws, r, 1)

----------------------------------------------------------------------------
(* The world the function runs in.                                         *)

Users == {"u1", "u2", "u3"}
CharOrder == <<"c1", "c2", "c3">>
CharIds == {CharOrder[k] : k \in 1..Len(CharOrder)}
ServiceFeedToken == "secret"

\* A history of n one-character entries, oldest first.
NumberedEntries(n) == [k \in 1..n |-> <<100 + k>>]
HistoryOf(n) == JoinNL(NumberedEntries(n))

\* The histories character c1 may start with: one just under the cap and one
\* over it.
InitHistories == {HistoryOf(19), HistoryOf(21)}

\* A short history with padding, an empty line and a trailing blank line.
UntidyHistory == <<SP, 101, SP, NL, NL, 102, NL, SP>>

Character(id, owner, likes, history) ==
  [id |-> id, user_id |-> owner, likes |-> likes, history |-> history]

InitCharacters(h) ==
  ("c1" :> Character("c1", "u1", <<0>>, h))
  @@ ("c2" :> Character("c2", "u1", <<9>>, UntidyHistory))
  @@ ("c3" :> Character("c3", "u2", <<-4>>, NotStr))

\* Request bodies as parsed JSON objects.
Payload(cid, c_id, token, uid) ==
  [characterId |-> cid, character_id |-> c_id, service_token |-> token, user_id |-> uid]
EmptyPayload == Payload(Absent, Absent, Absent, Absent)

Payloads ==
  {EmptyPayload,
   Payload("c1", Absent, Absent, Absent),
   Payload(Absent, "c1", Absent, Absent),
   Payload("", "c1", Absent, Absent),
   Payload("c2", "c1", Absent, Absent),
   Payload("c3", Absent, Absent, Absent),
   Payload(Absent, "c9", Absent, Absent),
   Payload(Absent, Absent, ServiceFeedToken, "u1"),
   Payload(Absent, Absent, ServiceFeedToken, Absent),
   Payload(Absent, Absent, "wrong", "u1")}

\* What the body of a request is: a JSON object, the JSON text null, or text
\* that is no JSON (or no body at all).
Body(kind, payload) == [kind |-> kind, payload |-> payload]
Bodies ==
  {Body("object", p) : p \in Payloads}
  \cup {Body("null", EmptyPayload), Body("invalid", EmptyPayload)}

Methods == {"OPTIONS", "POST", "GET"}
Origins == {"", "https://app.example"}

Request(method, origin, body) == [method |-> method, origin |-> origin, body |-> body]
NoRequest == Request("", "", Body("invalid", EmptyPayload))

\* payload and requestedCharacterId are not read after the character lookup.
Consumed(req) == Request(req.method, req.origin, Body("invalid", EmptyPayload))

\* auth.getUser(): an error, a user, or neither.
AuthOutcomes == {"error", "none"} \cup Users

\* The replies of the model API: an HTTP status and a body, which is JSON
\* with choices[0].message or is not JSON at all.
HttpStatuses == {200, 429, 500}
FullA == Obj(TitleA, ContentA, TldrClean)
FullB == Obj(TitleB, ContentB, TldrPadded)

AiMessages ==
  {Message(FullA, NoContent, NoTool),
   Message(FullA, NoContent, ObjTool(FullB)),
   Message(Obj(TitleA, ContentA, NotStr), NoContent, ObjTool(FullB)),
   Message(Obj(TitleA, ContentA, Blank), NoContent, NoTool),
   Message(Obj(Blank, ContentA, TldrClean), NoContent, NoTool),
   Message(Obj(TitleA, Empty, TldrClean), StrContent(TxtFull), NoTool),
   Message(JNull, StrContent(TxtPadded), NoTool),
   Message(JNum, StrContent(TxtNoContent), NoTool),
   Message(Undefined, StrContent(TxtTwoLines), NoTool),
   Message(Undefined, StrContent(TxtGarbage), StrTool(TxtFull)),
   Message(Undefined, StrContent(TxtNoTldr), ObjTool(FullB)),
   Message(Undefined, StrContent(TxtNum), NoTool),
   Message(Undefined, StrContent(Empty), NoTool),
   Message(Undefined, ArrContent(<<Part("image", NotStr), Part("text", TxtFull)>>), NoTool),
   Message(Undefined, ArrContent(<<Part("output_text", TxtNoTldr)>>), NoTool),
   Message(Undefined, ArrContent(<<Part("text", TxtGarbage)>>), NoTool),
   Message(Undefined, ArrContent(<<Part("text", Empty)>>), StrTool(TxtFull)),
   Message(Undefined, NoContent, StrTool(TxtFull)),
   Message(Undefined, NoContent, StrTool(TxtGarbage)),
   Message(Undefined, NoContent, ObjTool(FullB)),
   Message(Undefined, NoContent, NoTool),
   NoMessage}

AiBody(json, message) == [json |-> json, message |-> message]
AiBodies == {AiBody(TRUE, m) : m \in AiMessages} \cup {AiBody(FALSE, NoMessage)}

----------------------------------------------------------------------------
(* State.                                                                  *)

\* The invocations one instance of the function may have in flight, and how
\* many requests a run of the model receives in all.
Slots == {1, 2}
SeqSlots == {1}
MaxStarts == 2

VARIABLES
  characters,   \* the characters table: id -> row
  feed_items,   \* the feed_items table: the rows in insertion order
  inv,          \* slot -> the local state of the invocation running in it
  started,      \* the number of requests received so far
  characters0,  \* the characters table at the start (never changes)
  appended      \* character id -> the tldrs of the invocations answered 200, in order

\* Besides the handler's own locals, inv[i] keeps what the invocation did: ops,
\* the external operations in order with their outcomes; aiStatus, the HTTP
\* status of the model API's reply; store0, the store as the request arrived.
\* message is choiceMessage, which is not read after the field checks; draw is
\* r as drawn (scaled by Grid), which is not read after the walk.

vars == <<characters, feed_items, inv, started, characters0, appended>>

\* Responses: JSON.stringify({error}) | JSON.stringify({character_id, title,
\* content, tldr}) | "ok", each with the CORS headers.
\* The header with the wildcard for every request.
AllowOrigin_Star(origin) == "*"

\* req.headers.get("Origin") ?? "*": the origin "" stands for no header.
AllowOrigin(origin) == IF origin = "" THEN "*" ELSE origin

ErrorResp(origin, status, message) ==
  [status |-> status, kind |-> "error", error |-> message, character_id |-> "",
   title |-> <<>>, content |-> <<>>, tldr |-> <<>>, allowOrigin |-> AllowOrigin(origin)]

ItemResp(origin, id, feed) ==
  [status |-> 200, kind |-> "item", error |-> "", character_id |-> id,
   title |-> feed.title, content |-> feed.content, tldr |-> feed.tldr,
   allowOrigin |-> AllowOrigin(origin)]

TextResp(origin) ==
  [status |-> 200, kind |-> "text", error |-> "", character_id |-> "",
   title |-> <<>>, content |-> <<>>, tldr |-> <<>>, allowOrigin |-> AllowOrigin(origin)]

NoResp ==
  [status |-> 0, kind |-> "none", error |-> "", character_id |-> "",
   title |-> <<>>, content |-> <<>>, tldr |-> <<>>, allowOrigin |-> ""]

NoCharacter == Character("", "", <<>>, NotStr)

\* No draw was taken (targeted mode, or no lookup yet).
NoDraw == -1

\* An external operation an invocation performed, and how it ended.
Op(op, res) == [op |-> op, res |-> res]

Idle ==
  [pc |-> "idle", req |-> NoRequest, userId |-> "", requested |-> Absent,
   selected |-> NoCharacter, message |-> NoMessage, feed |-> NoFeed, newRow |-> 0,
   aiStatus |-> 0, draw |-> NoDraw,
   resp |-> NoResp, ops |-> <<>>, store0 |-> [characters |-> <<>>, rows |-> 0]]

Init ==
  /\ \E h \in InitHistories : characters = InitCharacters(h)
  /\ characters0 = characters
  /\ feed_items = <<>>
  /\ inv = [i \in Slots |-> Idle]
  /\ started = 0
  /\ appended = [c \in CharIds |-> <<>>]

\* The invocation returns a response.
Answer(l, resp) == [l EXCEPT !.pc = "done", !.resp = resp]

\* A throw inside the try block: the catch of lines 375-386 answers 500 with
\* the error's message.
Throw(l, message) == Answer(l, ErrorResp(l.req.origin, 500, message))

Did(l, op, res) == [l EXCEPT !.ops = Append(l.ops, Op(op, res))]

----------------------------------------------------------------------------
(* The handler, one action per stretch between two awaits.                 *)

\* Lines 19-38: a request arrives; OPTIONS is answered at once, and missing
\* environment variables throw.
Receive(i) ==
  /\ inv[i].pc = "idle"
  /\ started < MaxStarts
  /\ \E method \in Methods, origin \in Origins, body \in Bodies, envOk \in BOOLEAN :
       \* the body of a request that is no POST is never read
       /\ method # "POST" => body = Body("invalid", EmptyPayload)
       /\ LET l == [Idle EXCEPT !.req = Request(method, origin, body),
                                !.store0 = [characters |-> characters,
                                            rows |-> Len(feed_items)]]
          IN  inv' = [inv EXCEPT ![i] =
                IF method = "OPTIONS" THEN Answer(l, TextResp(origin))
                ELSE IF ~envOk THEN Throw(l, "Missing Supabase environment variables")
                ELSE [l EXCEPT !.pc = "auth"]]
  /\ started' = started + 1
  /\ UNCHANGED <<characters, feed_items, characters0, appended>>

\* Lines 71-94: no user came back from auth.getUser().  The branch reads
\* payload, which is declared by the let of line 96 and is still in its
\* temporal dead zone: the read throws a ReferenceError.
ServiceIdentity(l) == Throw(l, "Cannot access 'payload' before initialization")

\* Lines 96-113: the body is read only for POST; a body that fails to parse
\* leaves payload = {}.
ParsePayload(req) ==
  IF req.method = "POST" /\ req.body.kind \in {"object", "null"} THEN req.body
  ELSE Body("object", EmptyPayload)

\* Lines 57-119: identity resolution, then payload parsing.
GetUser(i) ==
  /\ inv[i].pc = "auth"
  /\ \E out \in AuthOutcomes :
       LET res == IF out \in Users THEN "user" ELSE out
           l == Did(inv[i], "auth", res)
           body == ParsePayload(l.req)
       IN  inv' = [inv EXCEPT ![i] =
             IF out = "error" THEN Answer(l, ErrorResp(l.req.origin, 401, "Unauthorized"))
             ELSE IF out = "none" THEN ServiceIdentity(l)
             ELSE IF body.kind = "null"
                  THEN Throw(l, "Cannot read properties of null (reading 'characterId')")
             ELSE [l EXCEPT !.pc = "lookup", !.userId = out,
                            !.requested = requestedCharacterId(body.payload)]]
  /\ UNCHANGED <<characters, feed_items, started, characters0, appended>>

\* The select without the filter on user_id.
UserChars_All(userId) == CharOrder

\* select(...).eq("user_id", userId): the ids of the user's characters.
UserChars(userId) == SelectSeq(CharOrder, LAMBDA c : characters[c].user_id = userId)

\* The select by id without the filter on user_id.
Targeted_AnyOwner(id, userId) == {c \in CharIds : characters[c].id = id}

\* select(...).eq("id", id).eq("user_id", userId).maybeSingle()
Targeted(id, userId) ==
  {c \in CharIds : characters[c].id = id /\ characters[c].user_id = userId}

ScaledWeights(rows) == [k \in 1..Len(rows) |-> Grid * Weight(characters[rows[k]].likes)]

\* The draws of Math.random() * total, scaled by Grid.
Draws(l) ==
  IF IsTargeted(l.requested) \/ UserChars(l.userId) = <<>> THEN {0}
  ELSE 0..(SumSeq(ScaledWeights(UserChars(l.userId))) - 1)

\* The answer to an empty character set, as the one for a missing character.
NoCharactersResp_NotFound(origin) == ErrorResp(origin, 404, "Character not found")

\* Lines 156-164: the answer when the user has no characters.
NoCharactersResp(origin) == ErrorResp(origin, 400, "No characters found")

\* Lines 133-181: the character lookup, targeted or weighted-random.
Lookup(i) ==
  /\ inv[i].pc = "lookup"
  /\ \E dbError \in BOOLEAN, r \in Draws(inv[i]) :
       LET mode == IF IsTargeted(inv[i].requested) THEN "targeted" ELSE "weighted"
           l == Did(inv[i], "lookup", IF dbError THEN "error" ELSE mode)
           m == [l EXCEPT !.pc = "model", !.req = Consumed(l.req), !.requested = Absent]
           rows == UserChars(l.userId)
           found == Targeted(l.requested, l.userId)
       IN  inv' = [inv EXCEPT ![i] =
             IF dbError THEN Throw(l, "db error")
             ELSE IF IsTargeted(l.requested)
                  THEN IF found = {}
                       THEN Answer(l, ErrorResp(l.req.origin, 404, "Character not found"))
                       ELSE [m EXCEPT !.selected = characters[CHOOSE c \in found : TRUE]]
             ELSE IF rows = <<>>
                  THEN Answer(l, NoCharactersResp(l.req.origin))
             ELSE [m EXCEPT !.draw = r,
                            !.selected =
                              characters[rows[WeightedIndex(ScaledWeights(rows), r)]]]]
  /\ UNCHANGED <<characters, feed_items, started, characters0, appended>>

\* Lines 228-231: what the request to the model API carries of the history,
\* the context built from the history read with the character.
ModelRequest(l) == historyContext(l.selected.history)

\* The reply is read whatever its status.
ResponseOk_Always(status) == TRUE

\* openaiRes.ok
ResponseOk(status) == status >= 200 /\ status <= 299

\* The model call made again after a non-success status.
UpstreamFailure_Retry(l, message) == [l EXCEPT !.pc = "model"]

\* Lines 244-248: a non-success status throws; nothing calls the API again.
UpstreamFailure(l, message) == Throw(l, message)

UpstreamMessage(status) ==
  CASE status = 429 -> "OpenAI API returned 429"
    [] status = 500 -> "OpenAI API returned 500"
    [] OTHER -> "OpenAI API returned"

\* Lines 216-318: the one request to the model API, extraction and the field
\* checks.
CallModel(i) ==
  /\ inv[i].pc = "model"
  /\ \E status \in HttpStatuses \cup {0}, ai \in AiBodies :
       \* status 0: fetch itself throws (no reply); the body of a reply
       \* that is no success is read as text only
       /\ ~ResponseOk(status) => ai = AiBody(FALSE, NoMessage)
       /\ LET res == IF status = 0 THEN "throw"
                     ELSE IF ~ResponseOk(status) THEN "http-error"
                     ELSE IF ~ai.json THEN "not-json"
                     ELSE "ok"
              l == [Did(inv[i], "model", res) EXCEPT !.aiStatus = status,
                                                     !.draw = NoDraw]
              feed == Extract(ai.message)
              x == [l EXCEPT !.message = ai.message, !.feed = feed]
          IN  inv' = [inv EXCEPT ![i] =
                IF status = 0 THEN Throw(l, "fetch failed")
                ELSE IF ~ResponseOk(status)
                     THEN UpstreamFailure(l, UpstreamMessage(status))
                ELSE IF ~ai.json THEN Throw(l, "Unexpected token in JSON")
                ELSE IF FieldError(feed) # "" THEN Throw(x, FieldError(feed))
                ELSE [x EXCEPT !.pc = "insert"]]
  /\ UNCHANGED <<characters, feed_items, started, characters0, appended>>

\* The row of lines 320-332, as far as the claims read it.
FeedRow(id, l) ==
  [id |-> id, user_id |-> l.userId, character_id |-> l.selected.id,
   title |-> l.feed.title, content |-> l.feed.content, tldr |-> l.feed.tldr,
   likes |-> 0, dislikes |-> 0, bookmarks |-> 0]

\* The insert stage without the check of the returned row.
InsertStageError_NoRowCheck(insertError, inserted) == insertError

\* The insert stage with its failures only logged.
InsertStageError_Logged(insertError, inserted) == ""

\* Lines 333-340: the message of the error thrown after the insert, "" when
\* the insert reported no error and returned a row.
InsertStageError(insertError, inserted) ==
  IF insertError # "" THEN insertError
  ELSE IF inserted = <<>>
       THEN "Insert returned no row; check table constraints and RLS policies"
  ELSE ""

\* Lines 320-340: insert(...).select().  The store reports an error, returns
\* no row (and stored none), or stores the row and returns it.
InsertFeedItem(i) ==
  /\ inv[i].pc = "insert"
  /\ \E outcome \in {"error", "zero", "row"} :
       LET l == [Did(inv[i], "insert", outcome) EXCEPT !.message = NoMessage]
           insertError == IF outcome = "error" THEN "insert failed" ELSE ""
           inserted == IF outcome = "row"
                       THEN <<FeedRow(Len(feed_items) + 1, l)>> ELSE <<>>
           err == InsertStageError(insertError, inserted)
       IN  /\ feed_items' = feed_items \o inserted
           /\ inv' = [inv EXCEPT ![i] =
                IF err # "" THEN Throw(l, err)
                ELSE [l EXCEPT !.pc = "history",
                               !.newRow = IF inserted = <<>> THEN 0 ELSE inserted[1].id]]
  /\ UNCHANGED <<characters, started, characters0, appended>>

\* The history stage with its failure only logged.
HistoryStageError_Logged(historyUpdateError) == ""

\* Lines 344-347: the message of the error thrown after the history update.
HistoryStageError(historyUpdateError) == historyUpdateError

\* The history the update is computed from, were it read again at the update.
HistoryRead_Fresh(l) == characters[l.selected.id].history

\* The history the update is computed from: the one read with the character
\* (line 183); it is not read again.
HistoryRead(l) == l.selected.history

\* An update that sets likes as well as history.
StoreHistory_ResetsLikes(failed, id, history) ==
  IF failed THEN characters
  ELSE [characters EXCEPT ![id].history = history, ![id].likes = <<0>>]

\* What update({history}).eq("id", id) leaves in the table.
StoreHistory(failed, id, history) ==
  IF failed THEN characters
  ELSE [characters EXCEPT ![id].history = history]

\* Lines 341-347: the history update.
UpdateHistory(i) ==
  /\ inv[i].pc = "history"
  /\ \E failed \in BOOLEAN :
       LET l == Did(inv[i], "history", IF failed THEN "error" ELSE "ok")
           err == HistoryStageError(IF failed THEN "update failed" ELSE "")
       IN  /\ characters' =
                StoreHistory(failed, l.selected.id,
                             updatedHistory(HistoryRead(l), l.feed.tldr))
           /\ inv' = [inv EXCEPT ![i] =
                IF err # "" THEN Throw(l, err) ELSE [l EXCEPT !.pc = "narration"]]
  /\ UNCHANGED <<feed_items, started, characters0, appended>>

\* buildNarrationText of _shared/audio.ts: it yields a text, yields an empty
\* text, or throws.
buildNarrationText(feedTitle, feedContent, feedTldr) == {"text", "empty", "throw"}

\* Lines 363-374: the success response.
Succeed(i, l) ==
  /\ inv' = [inv EXCEPT ![i] = Answer(l, ItemResp(l.req.origin, l.selected.id, l.feed))]
  /\ appended' = [appended EXCEPT ![l.selected.id] = Append(@, l.feed.tldr)]

\* Lines 349-357: the narration text is built (outside the try of line 351)
\* and, when it is not empty, handed to synthesizeNarrationToStorage.
Narrate(i) ==
  /\ inv[i].pc = "narration"
  /\ \E built \in buildNarrationText(inv[i].feed.title, inv[i].feed.content,
                                     inv[i].feed.tldr) :
       LET l == Did(inv[i], "buildNarrationText", built)
       IN  CASE built = "throw" ->
                  /\ inv' = [inv EXCEPT ![i] = Throw(l, "narration text failed")]
                  /\ UNCHANGED appended
             [] built = "empty" -> Succeed(i, l)
             [] OTHER ->
                  /\ inv' = [inv EXCEPT ![i] =
                       [Did(l, "narration", "started") EXCEPT !.pc = "synth"]]
                  /\ UNCHANGED appended
  /\ UNCHANGED <<characters, feed_items, started, characters0>>

\* Lines 351-374: synthesizeNarrationToStorage returns or throws; the catch of
\* line 358 only logs.
Synthesized(i) ==
  /\ inv[i].pc = "synth"
  /\ \E res \in {"ok", "throw"} : Succeed(i, Did(inv[i], "synthesize", res))
  /\ UNCHANGED <<characters, feed_items, started, characters0>>

\* The handler has returned: its locals are gone.
Return(i) ==
  /\ inv[i].pc = "done"
  /\ inv' = [inv EXCEPT ![i] = Idle]
  /\ UNCHANGED <<characters, feed_items, started, characters0, appended>>

Step(i) ==
  \/ Receive(i)
  \/ GetUser(i)
  \/ Lookup(i)
  \/ CallModel(i)
  \/ InsertFeedItem(i)
  \/ UpdateHistory(i)
  \/ Narrate(i)
  \/ Synthesized(i)
  \/ Return(i)

\* The invocations of Spec do not overlap: one slot.
Next == \E i \in SeqSlots : Step(i)

Spec == Init /\ [][Next]_vars

----------------------------------------------------------------------------
(* Overlapping invocations.  The instance serves requests concurrently:    *)
(* every await of the handler is a point where another invocation may run. *)
(* The steps are those of the handler above, in the environment in which   *)
(* no step fails: POST requests without an Origin header from user u1, for *)
(* character c1 or for a weighted draw, answered by the model with one of  *)
(* two complete replies.  (ConcScope holds of an idle slot as well.)       *)

ConcBodies == {Body("invalid", EmptyPayload),
               Body("object", Payload("c1", Absent, Absent, Absent))}

ConcMessages == {NoMessage,
                 Message(FullA, NoContent, NoTool),
                 Message(Undefined, NoContent, ObjTool(FullB))}

ConcScope(l) ==
  /\ l.req.method \in {"", "POST"}
  /\ l.req.origin = ""
  /\ l.req.body \in ConcBodies
  /\ l.userId \in {"", "u1"}
  /\ l.message \in ConcMessages
  /\ l.resp.status \in {0, 200}

ConcReceive(i) == Receive(i) /\ ConcScope(inv'[i])
ConcGetUser(i) == GetUser(i) /\ ConcScope(inv'[i])
ConcLookup(i) == Lookup(i) /\ ConcScope(inv'[i])
ConcCallModel(i) == CallModel(i) /\ ConcScope(inv'[i])
ConcInsertFeedItem(i) == InsertFeedItem(i) /\ ConcScope(inv'[i])
ConcUpdateHistory(i) == UpdateHistory(i) /\ ConcScope(inv'[i])
ConcNarrate(i) == Narrate(i) /\ ConcScope(inv'[i])
ConcSynthesized(i) == Synthesized(i) /\ ConcScope(inv'[i])

ConcStep(i) ==
  \/ ConcReceive(i)
  \/ ConcGetUser(i)
  \/ ConcLookup(i)
  \/ ConcCallModel(i)
  \/ ConcInsertFeedItem(i)
  \/ ConcUpdateHistory(i)
  \/ ConcNarrate(i)
  \/ ConcSynthesized(i)
  \/ Return(i)

NextConc == \E i \in Slots : ConcStep(i)

SpecConc == Init /\ [][NextConc]_vars

----------------------------------------------------------------------------
(* The selection stage on its own: the handler up to the choice of the     *)
(* character (lines 19-181), for characters with any of several like       *)
(* counts, the third one owned by u1 or by u2.                             *)

LikesValues == {<<>>, <<-4>>, <<0>>, <<1>>, <<4>>, <<9>>}

SelectCharacters(l1, l2, l3, owner3) ==
  [InitCharacters(HistoryOf(19)) EXCEPT !["c1"].likes = l1,
                                        !["c2"].likes = l2,
                                        !["c3"].likes = l3,
                                        !["c3"].user_id = owner3]

InitSelect ==
  /\ \E l1 \in LikesValues, l2 \in LikesValues, l3 \in LikesValues,
        owner3 \in {"u1", "u2"} :
       characters = SelectCharacters(l1, l2, l3, owner3)
  /\ characters0 = characters
  /\ feed_items = <<>>
  /\ inv = [i \in Slots |-> Idle]
  /\ started = 0
  /\ appended = [c \in CharIds |-> <<>>]

NextSelect == \E i \in SeqSlots : Receive(i) \/ GetUser(i) \/ Lookup(i)

SpecSelect == InitSelect /\ [][NextSelect]_vars

----------------------------------------------------------------------------
(* Properties.                                                             *)

HasOp(l, op, res) == \E k \in 1..Len(l.ops) : l.ops[k] = Op(op, res)
DidOp(l, op) == \E k \in 1..Len(l.ops) : l.ops[k].op = op

Answered(l, status) == l.pc = "done" /\ l.resp.status = status

\* Not empty after trimming whitespace.
NonBlank(s) == \E k \in 1..Len(s) : ~IsWs(s[k])

\* The store returned the row of invocation l, and the table holds it.
RowReturned(l) ==
  /\ HasOp(l, "insert", "row")
  /\ l.newRow \in 1..Len(feed_items)
  /\ feed_items[l.newRow] = FeedRow(l.newRow, l)

\* The invocation ran neither the history update nor the narration stage.
NoHistoryNoNarration(l) ==
  /\ ~DidOp(l, "history")
  /\ ~DidOp(l, "buildNarrationText")
  /\ ~DidOp(l, "narration")
  /\ characters = l.store0.characters

SuccessBody(l) ==
  /\ l.resp.kind = "item"
  /\ l.resp.error = ""
  /\ l.resp.character_id = l.selected.id
  /\ l.resp.title = l.feed.title
  /\ l.resp.content = l.feed.content
  /\ l.resp.tldr = l.feed.tldr

\* C1 as stated: every invocation that answers 200 inserted a feed item and
\* got its row back from the store before answering.
C1_EveryOk_HasRow ==
  \A i \in Slots : Answered(inv[i], 200) => RowReturned(inv[i])

\* C1, amended: every invocation other than an OPTIONS preflight that answers
\* 200 inserted a feed item and got its row back from the store before
\* answering, also when narration failed.
C1_NonPreflightOk_HasRow ==
  \A i \in Slots :
    (Answered(inv[i], 200) /\ inv[i].req.method # "OPTIONS") => RowReturned(inv[i])

C1_Witness ==
  \E i \in Slots :
    /\ Answered(inv[i], 200)
    /\ inv[i].req.method # "OPTIONS"
    /\ HasOp(inv[i], "synthesize", "throw")
    /\ RowReturned(inv[i])

\* C2 as stated: every 200 response and every inserted feed item carries a
\* title, a content and a tldr that are not blank.
C2_EveryOk_Complete ==
  /\ \A i \in Slots :
       Answered(inv[i], 200) =>
         /\ NonBlank(inv[i].resp.title)
         /\ NonBlank(inv[i].resp.content)
         /\ NonBlank(inv[i].resp.tldr)
  /\ \A k \in 1..Len(feed_items) :
       /\ NonBlank(feed_items[k].title)
       /\ NonBlank(feed_items[k].content)
       /\ NonBlank(feed_items[k].tldr)

\* C2, amended: every 200 response to a request other than an OPTIONS
\* preflight, and every inserted feed item, carries a title, a content and a
\* tldr that are not blank.
C2_NonPreflightOk_Complete ==
  /\ \A i \in Slots :
       (Answered(inv[i], 200) /\ inv[i].req.method # "OPTIONS") =>
         /\ inv[i].resp.kind = "item"
         /\ NonBlank(inv[i].resp.title)
         /\ NonBlank(inv[i].resp.content)
         /\ NonBlank(inv[i].resp.tldr)
  /\ \A k \in 1..Len(feed_items) :
       /\ NonBlank(feed_items[k].title)
       /\ NonBlank(feed_items[k].content)
       /\ NonBlank(feed_items[k].tldr)

C2_Witness ==
  \E i \in Slots :
    /\ Answered(inv[i], 200)
    /\ inv[i].req.method # "OPTIONS"
    /\ inv[i].resp.tldr = TldrPadded
    /\ RowReturned(inv[i])

\* C3: an invocation whose narration stage failed (building the text threw, or
\* the synthesis call threw) after the insert and the history update
\* succeeded answers 200 with character_id, title, content and tldr and no
\* error field.
C3_NarrationFailure_StillOk ==
  \A i \in Slots :
    ( /\ inv[i].pc = "done"
      /\ HasOp(inv[i], "insert", "row")
      /\ HasOp(inv[i], "history", "ok")
      /\ \/ HasOp(inv[i], "buildNarrationText", "throw")
         \/ HasOp(inv[i], "synthesize", "throw") )
    => (Answered(inv[i], 200) /\ SuccessBody(inv[i]))

\* C4: when the model API answers with a non-success status, the invocation
\* answers 500, inserts no feed item, does not write the history and does not
\* trigger narration.
C4_UpstreamError_NoWrites ==
  \A i \in Slots :
    (inv[i].aiStatus # 0 /\ ~(inv[i].aiStatus \in 200..299)) =>
      /\ Answered(inv[i], 500)
      /\ ~DidOp(inv[i], "insert")
      /\ Len(feed_items) = inv[i].store0.rows
      /\ NoHistoryNoNarration(inv[i])

C4_Witness ==
  \E i \in Slots : inv[i].aiStatus = 500 /\ Answered(inv[i], 500)

\* C5: when the feed item insert reports an error, the invocation answers 500
\* and performs neither the history update nor the narration trigger.
C5_InsertError_Stops ==
  \A i \in Slots :
    HasOp(inv[i], "insert", "error") =>
      (Answered(inv[i], 500) /\ NoHistoryNoNarration(inv[i]))

C5_Witness ==
  \E i \in Slots : HasOp(inv[i], "insert", "error") /\ Answered(inv[i], 500)

\* C6: when the insert reports no error but returns zero rows, the invocation
\* answers 500, never 200, and neither attempts the history update nor
\* triggers narration.
C6_InsertNoRow_Stops ==
  \A i \in Slots :
    HasOp(inv[i], "insert", "zero") =>
      (Answered(inv[i], 500) /\ NoHistoryNoNarration(inv[i]))

C6_Witness ==
  \E i \in Slots :
    /\ HasOp(inv[i], "insert", "zero")
    /\ Answered(inv[i], 500)
    /\ inv[i].resp.error = "Insert returned no row; check table constraints and RLS policies"

\* C7: when the history update fails after the feed item was inserted, the
\* invocation answers 500, the inserted feed item is still in the store, the
\* stored history is unchanged and narration is not triggered.
C7_HistoryError_KeepsItem ==
  \A i \in Slots :
    HasOp(inv[i], "history", "error") =>
      /\ Answered(inv[i], 500)
      /\ RowReturned(inv[i])
      /\ Len(feed_items) = inv[i].store0.rows + 1
      /\ characters = inv[i].store0.characters
      /\ ~DidOp(inv[i], "buildNarrationText")
      /\ ~DidOp(inv[i], "narration")

C7_Witness ==
  \E i \in Slots :
    /\ HasOp(inv[i], "history", "error")
    /\ Answered(inv[i], 500)
    /\ RowReturned(inv[i])

\* The newline-delimited lines of a stored history.
Lines(h) == SplitNL(existingHistoryRaw(h))

\* C8: every history value the pipeline writes has at most 20
\* newline-delimited lines.
C8_WrittenHistory_AtMost20Lines ==
  \A i \in Slots :
    HasOp(inv[i], "history", "ok") =>
      Len(Lines(characters[inv[i].selected.id].history)) <= 20

\* No invocation is between its history write and its response.
Quiescent == \A i \in Slots : inv[i].pc \in {"idle", "done"}

\* C9: after n >= 1 successful, non-overlapping generations on a character,
\* its stored history is the most recent min(20, total) entries of its initial
\* entries followed by the n generated tldrs, oldest first.
C9_History_IsLatest20 ==
  \A c \in CharIds :
    (Quiescent /\ appended[c] # <<>>) =>
      Lines(characters[c].history) =
        SliceLast(historyEntries(characters0[c].history) \o appended[c], 20)

\* C10: a successful generation on a character whose history held 21
\* non-empty entries leaves a stored history of exactly 20 entries, without
\* the oldest original entry and with the new tldr last.
C10_From21_To20 ==
  \A i \in Slots :
    LET before == Lines(inv[i].selected.history)
        after == Lines(characters[inv[i].selected.id].history)
    IN  ( /\ Answered(inv[i], 200)
          /\ inv[i].req.method # "OPTIONS"
          /\ Len(before) = 21
          /\ \A k \in 1..21 : NonBlank(before[k]) )
        => /\ Len(after) = 20
           /\ \A k \in 1..Len(after) : after[k] # before[1]
           /\ after[Len(after)] = inv[i].feed.tldr

\* Invocations i and j ran for the same character and both read its history
\* before either wrote it: both hold the same history from their lookup, and
\* a write changes the stored history.
ReadSameHistory(i, j) ==
  /\ i # j
  /\ HasOp(inv[i], "history", "ok")
  /\ HasOp(inv[j], "history", "ok")
  /\ inv[i].selected.id = inv[j].selected.id
  /\ inv[i].selected.history = inv[j].selected.history

\* C11: two overlapping invocations for the same character that both read
\* the history before either writes it both answer 200 and both insert a feed
\* item, and the stored history is then the history they read followed by the
\* tldr of one of them only: the later write replaces the earlier one.
C11_LastWriteWins ==
  \A i, j \in Slots :
    (ReadSameHistory(i, j) /\ Answered(inv[i], 200) /\ Answered(inv[j], 200)) =>
      /\ RowReturned(inv[i])
      /\ RowReturned(inv[j])
      /\ inv[i].newRow # inv[j].newRow
      /\ characters[inv[i].selected.id].history \in
           {updatedHistory(inv[i].selected.history, inv[i].feed.tldr),
            updatedHistory(inv[j].selected.history, inv[j].feed.tldr)}

C11_Witness ==
  /\ ReadSameHistory(1, 2)
  /\ Answered(inv[1], 200)
  /\ Answered(inv[2], 200)
  /\ RowReturned(inv[1])
  /\ RowReturned(inv[2])
  /\ inv[1].feed.tldr = TldrClean
  /\ inv[2].feed.tldr = TldrPadded
  /\ characters[inv[1].selected.id].history =
       updatedHistory(inv[2].selected.history, inv[2].feed.tldr)
  /\ \A k \in 1..Len(Lines(characters[inv[1].selected.id].history)) :
       Lines(characters[inv[1].selected.id].history)[k] # inv[1].feed.tldr

\* A title, a content and a tldr that are each not blank.
Complete(feed) == NonBlank(feed.title) /\ NonBlank(feed.content) /\ NonBlank(feed.tldr)

\* The four response shapes in the order of the chain, whether a message
\* carries each, and what each yields when it is the one read.
Shapes == <<"parsed", "string", "array", "tool">>

ShapePresent(m, shape) ==
  /\ m.present
  /\ CASE shape = "parsed" -> m.parsed.t = "object"
       [] shape = "string" -> m.content.kind = "string"
       [] shape = "array" -> m.content.kind = "array"
       [] OTHER -> ToolPresent(m)

ShapeYield(m, shape) ==
  CASE shape = "parsed" -> ExtractParsed(m)
    [] shape = "string" -> ExtractString(m)
    [] shape = "array" -> ExtractArray(m)
    [] OTHER -> ExtractTool(m)

\* The model API answered with JSON and the invocation is at (or stopped at)
\* the field checks: message and feed are those of this reply.
Extracted(l) ==
  /\ HasOp(l, "model", "ok")
  /\ ~DidOp(l, "insert")
  /\ l.pc \in {"insert", "done"}

\* C12: a shape that does not yield all three non-blank fields is skipped and
\* the next shape is tried, so an invocation whose model response carries
\* some shape that yields a complete triple does not fail at extraction.
C12_IncompleteShape_Skipped ==
  \A i \in Slots :
    ( /\ Extracted(inv[i])
      /\ \E k \in 1..Len(Shapes) :
           /\ ShapePresent(inv[i].message, Shapes[k])
           /\ Complete(ShapeYield(inv[i].message, Shapes[k])) )
    => (inv[i].pc = "insert" /\ Complete(inv[i].feed))

\* C13: when the model response carries a parsed payload with a complete
\* triple and tool-call arguments with different values, the extracted title,
\* content and tldr are those of the parsed payload.
C13_ParsedWins ==
  \A i \in Slots :
    LET m == inv[i].message
    IN  ( /\ Extracted(inv[i])
          /\ ShapePresent(m, "parsed")
          /\ Complete(ShapeYield(m, "parsed"))
          /\ ShapePresent(m, "tool")
          /\ ShapeYield(m, "tool") # ShapeYield(m, "parsed") )
        => /\ inv[i].pc = "insert"
           /\ inv[i].feed.title = m.parsed.title
           /\ inv[i].feed.content = m.parsed.content
           /\ inv[i].feed.tldr = m.parsed.tldr

C13_Witness ==
  \E i \in Slots :
    /\ Extracted(inv[i])
    /\ inv[i].message = Message(FullA, NoContent, ObjTool(FullB))
    /\ inv[i].pc = "insert"
    /\ inv[i].feed = [title |-> TitleA, content |-> ContentA, tldr |-> TldrClean]

\* Extraction failed: some field of the extracted triple is blank.
ExtractionFailed(l) == Extracted(l) /\ ~Complete(l.feed)

\* C14: when extraction fails, the invocation answers 500 with the title
\* message when the title is blank, otherwise the content message when the
\* content is blank, otherwise the TL;DR message, and nothing is inserted
\* or written.
C14_FailureNamesField ==
  \A i \in Slots :
    ExtractionFailed(inv[i]) =>
      /\ Answered(inv[i], 500)
      /\ inv[i].resp.kind = "error"
      /\ inv[i].resp.error =
           IF ~NonBlank(inv[i].feed.title) THEN "Feed title missing from AI response"
           ELSE IF ~NonBlank(inv[i].feed.content)
                THEN "Feed content missing from AI response"
           ELSE "Feed TL;DR missing from AI response"
      /\ Len(feed_items) = inv[i].store0.rows
      /\ NoHistoryNoNarration(inv[i])

C14_Witness ==
  \E i \in Slots :
    /\ ExtractionFailed(inv[i])
    /\ NonBlank(inv[i].feed.title)
    /\ NonBlank(inv[i].feed.content)
    /\ inv[i].feed.tldr = Blank
    /\ inv[i].resp.error = "Feed TL;DR missing from AI response"

\* The invocation changed nothing in the store and never called the model.
NoModelNoWrite(l) ==
  /\ ~DidOp(l, "model")
  /\ ~DidOp(l, "insert")
  /\ ~DidOp(l, "history")
  /\ characters = l.store0.characters
  /\ Len(feed_items) = l.store0.rows

\* The character id a targeted lookup asked for: the id of the row it found,
\* or the requested id when it found none.
TargetId(l) == IF l.selected # NoCharacter THEN l.selected.id ELSE l.requested

\* A targeted lookup for an id that no character has, or that a character of
\* another user has.
TargetNotOwn(l) ==
  /\ HasOp(l, "lookup", "targeted")
  /\ \/ TargetId(l) \notin CharIds
     \/ characters[TargetId(l)].user_id # l.userId

\* C15: a targeted request for an id that does not exist and one for an id
\* owned by another user get the same answer, 404 "Character not found" with
\* nothing in it but the CORS origin of the request, after the same
\* operations (the lookup only): no model call, no store write.
C15_NotFound_SameAsNotOwned ==
  \A i \in Slots :
    TargetNotOwn(inv[i]) =>
      /\ inv[i].pc = "done"
      /\ inv[i].resp = ErrorResp(inv[i].req.origin, 404, "Character not found")
      /\ inv[i].ops = <<Op("auth", "user"), Op("lookup", "targeted")>>
      /\ NoModelNoWrite(inv[i])

C15_Witness ==
  \E i \in Slots :
    /\ TargetNotOwn(inv[i])
    /\ inv[i].userId = "u1"
    /\ inv[i].requested = "c3"
    /\ characters["c3"].user_id = "u2"
    /\ Answered(inv[i], 404)

\* C16: every inserted feed item has the user_id of the acting user and the
\* character_id of a character that this user owns, in both modes; the
\* selected character is always one of the acting user's.
C16_Items_OwnedByActingUser ==
  /\ \A k \in 1..Len(feed_items) :
       /\ feed_items[k].character_id \in CharIds
       /\ characters[feed_items[k].character_id].user_id = feed_items[k].user_id
  /\ \A i \in Slots :
       /\ inv[i].selected # NoCharacter =>
            /\ inv[i].selected.id \in CharIds
            /\ characters[inv[i].selected.id].user_id = inv[i].userId
       /\ HasOp(inv[i], "insert", "row") =>
            /\ feed_items[inv[i].newRow].user_id = inv[i].userId
            /\ feed_items[inv[i].newRow].character_id = inv[i].selected.id

C16_Witness ==
  \E i \in Slots :
    /\ HasOp(inv[i], "lookup", "weighted")
    /\ HasOp(inv[i], "insert", "row")
    /\ inv[i].userId = "u1"
    /\ feed_items[inv[i].newRow].character_id = "c2"
    /\ inv[i].store0.rows > 0

\* The request carries the configured service token: a POST whose body is a
\* JSON object with that service_token.
ValidServiceToken(l) ==
  /\ l.req.method = "POST"
  /\ l.req.body.kind = "object"
  /\ l.req.body.payload.service_token = ServiceFeedToken

\* Primary auth answered and yielded no user.
NoPrimaryUser(l) == DidOp(l, "auth") /\ ~HasOp(l, "auth", "user")

\* C17: a request for which primary auth yields no user and which carries no
\* service token, or one that is not the configured secret, is answered 401
\* and performs no character lookup, model call or store write.
C17_NoIdentity_Unauthorized ==
  \A i \in Slots :
    (NoPrimaryUser(inv[i]) /\ ~ValidServiceToken(inv[i])) =>
      /\ Answered(inv[i], 401)
      /\ ~DidOp(inv[i], "lookup")
      /\ NoModelNoWrite(inv[i])

\* C18: when primary auth yields no user and the body carries the configured
\* service token and a string user_id, the invocation goes on with that
\* user_id as the acting user.
C18_ServiceToken_Impersonates ==
  \A i \in Slots :
    ( /\ NoPrimaryUser(inv[i])
      /\ ValidServiceToken(inv[i])
      /\ inv[i].req.body.payload.user_id # Absent )
    => /\ inv[i].userId = inv[i].req.body.payload.user_id
       /\ inv[i].pc = "lookup"

\* C19: when primary auth yields no user and the body carries the configured
\* service token but no string user_id, the invocation answers 400 and
\* performs no character lookup, model call or store write.
C19_ServiceToken_NeedsUserId ==
  \A i \in Slots :
    ( /\ NoPrimaryUser(inv[i])
      /\ ValidServiceToken(inv[i])
      /\ inv[i].req.body.payload.user_id = Absent )
    => /\ Answered(inv[i], 400)
       /\ ~DidOp(inv[i], "lookup")
       /\ NoModelNoWrite(inv[i])

\* The table holds no character of this user.
OwnsNone(userId) == \A c \in CharIds : characters[c].user_id # userId

\* C20: in weighted-random mode, when the acting user owns no characters the
\* invocation answers 400 "No characters found" and performs no model call
\* and no store write.
C20_NoCharacters_BadRequest ==
  \A i \in Slots :
    (HasOp(inv[i], "lookup", "weighted") /\ OwnsNone(inv[i].userId)) =>
      /\ Answered(inv[i], 400)
      /\ inv[i].resp.kind = "error"
      /\ inv[i].resp.error = "No characters found"
      /\ NoModelNoWrite(inv[i])

C20_Witness ==
  \E i \in Slots :
    /\ HasOp(inv[i], "lookup", "weighted")
    /\ inv[i].userId = "u3"
    /\ OwnsNone("u3")
    /\ Answered(inv[i], 400)

\* The invocation took a weighted draw and has just selected its character.
Drew(l) == l.draw # NoDraw /\ HasOp(l, "lookup", "weighted")

\* The rows the weighted lookup of invocation l fetched, their weights and
\* the total, scaled by Grid (the table does not change during selection).
FetchedRows(l) == UserChars(l.userId)
FetchedWeights(l) == ScaledWeights(FetchedRows(l))
TotalWeight(l) == SumSeq(FetchedWeights(l))

\* The sum of the first k weights.
Cumulative(ws, k) == SumSeq(SubSeq(ws, 1, k))

\* The position of the selected character among the fetched rows.
SelectedIndex(l) ==
  CHOOSE k \in 1..Len(FetchedRows(l)) : FetchedRows(l)[k] = l.selected.id

\* The number of draws of the grid that select index k.
DrawsSelecting(ws, k) ==
  Cardinality({d \in 0..(SumSeq(ws) - 1) : WeightedIndex(ws, d) = k})

\* C21: in weighted-random mode the draw lies in [0, totalWeight) and the
\* selected character is the one whose consecutive interval of length
\* weight_i holds the draw (a draw strictly inside interval k selects k, and
\* the draw is never outside the closed interval of the selected index), so
\* the draws selecting i are weight_i / totalWeight of all draws, up to the
\* one boundary point of the grid.
C21_Draw_SelectsItsInterval ==
  \A i \in Slots :
    Drew(inv[i]) =>
      LET ws == FetchedWeights(inv[i])
          r == inv[i].draw
          sel == SelectedIndex(inv[i])
      IN  /\ inv[i].selected.id \in {FetchedRows(inv[i])[k] : k \in 1..Len(ws)}
          /\ r \in 0..(TotalWeight(inv[i]) - 1)
          /\ Cumulative(ws, sel - 1) <= r
          /\ r <= Cumulative(ws, sel)
          /\ \A k \in 1..Len(ws) :
               /\ (Cumulative(ws, k - 1) < r /\ r < Cumulative(ws, k)) => sel = k
               /\ DrawsSelecting(ws, k) \in (ws[k] - 1)..(ws[k] + 1)

\* Likes 0 and 9, weights 1 and 4: a draw in the second interval selects the
\* second character, which 7 of the 10 grid draws (8 less the boundary) do.
C21_Witness ==
  \E i \in Slots :
    /\ Drew(inv[i])
    /\ FetchedRows(inv[i]) = <<"c1", "c2">>
    /\ characters["c1"].likes = <<0>>
    /\ characters["c2"].likes = <<9>>
    /\ FetchedWeights(inv[i]) = <<Grid * 1, Grid * 4>>
    /\ inv[i].draw = Grid * 1 + 1
    /\ inv[i].selected.id = "c2"
    /\ DrawsSelecting(FetchedWeights(inv[i]), 2) = Grid * 4 - 1

\* C22: the weight of every character is 1 + sqrt(max(likes, 0)): 1 + sqrt(L)
\* for likes L >= 0, exactly 1 for null or negative likes; every weight is at
\* least 1 and the total is at least the number of characters.
C22_Weight_Formula ==
  \A i \in Slots :
    Drew(inv[i]) =>
      LET rows == FetchedRows(inv[i])
      IN  /\ \A k \in 1..Len(rows) :
               LET likes == characters[rows[k]].likes
                   w == Weight(likes)
               IN  /\ w >= 1
                   /\ (likes = <<>> \/ likes[1] < 0) => w = 1
                   /\ (likes # <<>> /\ likes[1] >= 0) =>
                        (w - 1) * (w - 1) = likes[1]
                   /\ FetchedWeights(inv[i])[k] = Grid * w
          /\ TotalWeight(inv[i]) >= Grid * Len(rows)

C22_Witness ==
  \E i \in Slots :
    /\ Drew(inv[i])
    /\ FetchedRows(inv[i]) = <<"c1", "c2", "c3">>
    /\ characters["c1"].likes = <<>>
    /\ characters["c2"].likes = <<-4>>
    /\ characters["c3"].likes = <<9>>
    /\ TotalWeight(inv[i]) = Grid * 6
    /\ inv[i].selected.id = "c3"

\* C27: when the draw equals the cumulative weight of the characters up to
\* index k exactly, the character selected is the later one, index k + 1.
C27_Tie_SelectsLater ==
  \A i \in Slots :
    Drew(inv[i]) =>
      \A k \in 1..(Len(FetchedRows(inv[i])) - 1) :
        inv[i].draw = Cumulative(FetchedWeights(inv[i]), k) =>
          inv[i].selected.id = FetchedRows(inv[i])[k + 1]

\* The external operations in the order of the handler, and the results
\* after which the next one starts.
StageOrder ==
  <<"auth", "lookup", "model", "insert", "history", "buildNarrationText",
    "narration", "synthesize">>

Completed(op) ==
  CASE op = "auth" -> {"user"}
    [] op = "lookup" -> {"targeted", "weighted"}
    [] op = "model" -> {"ok"}
    [] op = "insert" -> {"row"}
    [] op = "history" -> {"ok"}
    [] op = "buildNarrationText" -> {"text"}
    [] op = "narration" -> {"started"}
    [] OTHER -> {"ok", "throw"}

\* How many times invocation l performed operation op.
OpCount(l, op) == Cardinality({k \in 1..Len(l.ops) : l.ops[k].op = op})

\* C23: in every invocation the external operations happen in the order
\* identity resolution, character lookup, model call, feed item insert,
\* history update, narration trigger, each started only after the previous
\* one completed successfully; no lookup happens before the acting user is
\* resolved and no store write before the model call returned.
C23_Stages_InOrder ==
  \A i \in Slots :
    /\ Len(inv[i].ops) <= Len(StageOrder)
    /\ \A k \in 1..Len(inv[i].ops) :
         /\ inv[i].ops[k].op = StageOrder[k]
         /\ k < Len(inv[i].ops) => inv[i].ops[k].res \in Completed(StageOrder[k])
    /\ DidOp(inv[i], "lookup") => inv[i].userId \in Users
    /\ (DidOp(inv[i], "insert") \/ DidOp(inv[i], "history")) =>
         HasOp(inv[i], "model", "ok")
    /\ (inv[i].pc # "idle" /\ ~HasOp(inv[i], "model", "ok")) =>
         /\ characters = inv[i].store0.characters
         /\ Len(feed_items) = inv[i].store0.rows

C23_Witness ==
  \E i \in Slots :
    /\ Answered(inv[i], 200)
    /\ [k \in 1..Len(inv[i].ops) |-> inv[i].ops[k].op] = StageOrder
    /\ RowReturned(inv[i])

\* C24: every invocation issues at most one request to the model API, in
\* every outcome.
C24_OneModelCall ==
  \A i \in Slots : OpCount(inv[i], "model") <= 1

C24_Witness ==
  \E i \in Slots :
    /\ inv[i].pc = "done"
    /\ HasOp(inv[i], "model", "ok")
    /\ HasOp(inv[i], "insert", "error")
    /\ OpCount(inv[i], "model") = 1

\* C25: an OPTIONS request is answered with status 200 and the CORS headers
\* and performs no identity resolution, no store read or write and no model
\* call.
C25_Options_BareOk ==
  \A i \in Slots :
    inv[i].req.method = "OPTIONS" =>
      /\ Answered(inv[i], 200)
      /\ inv[i].resp.kind = "text"
      /\ inv[i].resp.allowOrigin =
           (IF inv[i].req.origin = "" THEN "*" ELSE inv[i].req.origin)
      /\ inv[i].ops = <<>>
      /\ characters = inv[i].store0.characters
      /\ Len(feed_items) = inv[i].store0.rows

C25_Witness ==
  \E i \in Slots :
    /\ inv[i].req.method = "OPTIONS"
    /\ inv[i].req.origin = "https://app.example"
    /\ Answered(inv[i], 200)
    /\ inv[i].resp.allowOrigin = "https://app.example"
    /\ inv[i].store0.rows > 0

\* The entries of a stored history: its lines that are not blank, trimmed.
StoredEntries(h) ==
  LET kept == SelectSeq(Lines(h), NonBlank)
  IN  [k \in 1..Len(kept) |-> Trim(kept[k])]

Min(a, b) == IF a <= b THEN a ELSE b

\* The invocation has just made its request to the model API.
CalledModel(l) == DidOp(l, "model") /\ ~DidOp(l, "insert")

\* C26: the history context sent to the model is the sentinel when the
\* stored history has no entry, and otherwise lists exactly the last
\* min(n, 10) of its n entries in stored order, numbered 1..min(n, 10).
C26_Context_LastTen ==
  \A i \in Slots :
    CalledModel(inv[i]) =>
      LET ctx == ModelRequest(inv[i])
          entries == StoredEntries(inv[i].selected.history)
          n == Len(entries)
          m == Min(n, 10)
      IN  /\ n = 0 => (ctx.sentinel /\ ctx.lines = <<>>)
          /\ n >= 1 =>
               /\ ~ctx.sentinel
               /\ Len(ctx.lines) = m
               /\ \A k \in 1..m :
                    ctx.lines[k] = [num |-> k, entry |-> entries[n - m + k]]

C26_Witness ==
  \E i \in Slots :
    /\ CalledModel(inv[i])
    /\ inv[i].selected.history = HistoryOf(21)
    /\ Len(ModelRequest(inv[i]).lines) = 10
    /\ ModelRequest(inv[i]).lines[1] = [num |-> 1, entry |-> <<112>>]
    /\ ModelRequest(inv[i]).lines[10] = [num |-> 10, entry |-> <<121>>]

\* The non-empty character ids the body of the request carries, under either
\* spelling.
CarriedIds(l) ==
  IF l.req.method = "POST" /\ l.req.body.kind = "object"
  THEN {l.req.body.payload.characterId, l.req.body.payload.character_id}
         \ {Absent, ""}
  ELSE {}

\* C28: a request that carries a non-empty character id under either
\* spelling runs in targeted mode for an id it carries, whatever the other
\* field holds.
C28_Spellings_Equivalent ==
  \A i \in Slots :
    (inv[i].pc = "lookup" /\ CarriedIds(inv[i]) # {}) =>
      /\ IsTargeted(inv[i].requested)
      /\ inv[i].requested \in CarriedIds(inv[i])

\* Every character is as it was at the start but for its history; an
\* invocation inserts at most once, writes the history only after its insert
\* returned a row, and leaves characters and feed items as it found them but
\* for its own history write and its own row.
FrameState ==
  /\ \A c \in CharIds :
       [characters[c] EXCEPT !.history = characters0[c].history] = characters0[c]
  /\ \A i \in Slots :
       /\ OpCount(inv[i], "insert") <= 1
       /\ DidOp(inv[i], "history") => HasOp(inv[i], "insert", "row")
       /\ (inv[i].pc # "idle" /\ ~HasOp(inv[i], "history", "ok")) =>
            characters = inv[i].store0.characters
       /\ inv[i].pc # "idle" =>
            Len(feed_items) =
              inv[i].store0.rows + (IF HasOp(inv[i], "insert", "row") THEN 1 ELSE 0)

\* A step keeps every feed item there is, and changes the characters only
\* as the history write of an invocation whose insert returned a row.
FrameStep ==
  /\ Len(feed_items') >= Len(feed_items)
  /\ SubSeq(feed_items', 1, Len(feed_items)) = feed_items
  /\ characters' # characters =>
       \E i \in Slots :
         /\ ~DidOp(inv[i], "history")
         /\ HasOp(inv'[i], "history", "ok")
         /\ HasOp(inv'[i], "insert", "row")

\* C29: the pipeline changes no field of a character other than history and
\* writes history only in the stage after an insert that returned a row;
\* an invocation that ends before that stage leaves all characters
\* unchanged; every invocation inserts at most one feed item and none
\* updates or deletes a feed item.
C29_Frame == []FrameState /\ [][FrameStep]_vars

C29_Witness ==
  \E i \in Slots :
    /\ Answered(inv[i], 500)
    /\ HasOp(inv[i], "insert", "zero")
    /\ inv[i].store0.rows = 1
    /\ Len(feed_items) = 1
    /\ characters = inv[i].store0.characters
    /\ characters # characters0

\* C30: every entry of a character's stored history that was not in its
\* initial history is the tldr of a feed item inserted for that character.
C30_Entries_HaveItems ==
  \A c \in CharIds :
    LET entries == StoredEntries(characters[c].history)
        initial == StoredEntries(characters0[c].history)
    IN  \A k \in 1..Len(entries) :
          \/ \E j \in 1..Len(initial) : initial[j] = entries[k]
          \/ \E j \in 1..Len(feed_items) :
               /\ feed_items[j].character_id = c
               /\ Trim(feed_items[j].tldr) = entries[k]

====
